---- MODULE Spec2Model ----
(***************************************************************************)
(* A model of base.py of slowfast_nfnets: the architecture table, the      *)
(* weight-standardized convolution WSConv2D, the SqueezeExcite constructor *)
(* and the StochDepth call.                                                *)
(*                                                                         *)
(* Numbers are exact rationals <<numerator, denominator>> (denominator     *)
(* positive, lowest terms).  The inputs of StochDepth and SqueezeExcite are *)
(* values that binary floating point represents exactly or whose rounding  *)
(* the checked properties do not depend on; WSConv2D is modelled both in   *)
(* real arithmetic and with the rounding of floating point (see there).    *)
(* None is the empty tuple <<>>, Some(v) is <<v>>.  Each component has its *)
(* own specification: SpecArch, SpecSE, SpecSD, SpecSDSeq and SpecWS; the  *)
(* variables of the other components stay at their initial values.         *)
(***************************************************************************)
EXTENDS Integers, Sequences, FiniteSets, TLC

VARIABLES
  \* architecture table lookup
  arch_name, arch_field, arch_index, arch_value, arch_pc,
  \* SqueezeExcite.__init__
  se_args, se_self, se_modules, se_pc,
  \* StochDepth: the module, the key source, and the last call
  sd_drop_rate, sd_scale_by_keep, sd_rng, sd_calls, sd_train_calls, sd_keys,
  sd_x, sd_is_training, sd_key, sd_r, sd_out, sd_pc,
  \* WSConv2D: the module, its parameters in the store, and the last call
  ws_cfg, ws_arith, ws_params, ws_calls, ws_inputs, ws_eps, ws_weight, ws_out,
  ws_pc

archVars == <<arch_name, arch_field, arch_index, arch_value, arch_pc>>
seVars == <<se_args, se_self, se_modules, se_pc>>
sdVars ==
  <<sd_drop_rate, sd_scale_by_keep, sd_rng, sd_calls, sd_train_calls, sd_keys,
    sd_x, sd_is_training, sd_key, sd_r, sd_out, sd_pc>>
wsVars ==
  <<ws_cfg, ws_arith, ws_params, ws_calls, ws_inputs, ws_eps, ws_weight, ws_out,
    ws_pc>>
vars == <<archVars, seVars, sdVars, wsVars>>

\* what the actions of one component leave alone
notArch == <<seVars, sdVars, wsVars>>
notSE == <<archVars, sdVars, wsVars>>
notSD == <<archVars, seVars, wsVars>>
notWS == <<archVars, seVars, sdVars>>

None == <<>>

Some(v) == <<v>>

(***************************************************************************)
(* Exact rational arithmetic.                                              *)
(***************************************************************************)
Abs(n) == IF n < 0 THEN -n ELSE n

RECURSIVE GCD(_, _)
GCD(a, b) == IF b = 0 THEN a ELSE GCD(b, a % b)

Rat(n, d) ==
  LET s == IF d < 0 THEN -1 ELSE 1
      g == GCD(Abs(n), Abs(d))
  IN  <<(s * n) \div g, (s * d) \div g>>

RInt(n) == <<n, 1>>

RAdd(p, q) == Rat(p[1] * q[2] + q[1] * p[2], p[2] * q[2])

RSub(p, q) == Rat(p[1] * q[2] - q[1] * p[2], p[2] * q[2])

RMul(p, q) == Rat(p[1] * q[1], p[2] * q[2])

RDiv(p, q) == Rat(p[1] * q[2], p[2] * q[1])

RLe(p, q) == p[1] * q[2] <= q[1] * p[2]

RLt(p, q) == p[1] * q[2] < q[1] * p[2]

RMax(p, q) == IF RLe(p, q) THEN q ELSE p

\* jnp.floor: the greatest integer not above q
RFloor(q) == q[1] \div q[2]

\* Python int(): truncation toward zero
PyInt(q) == IF q[1] >= 0 THEN q[1] \div q[2] ELSE -((-q[1]) \div q[2])

\* Python max() of two integers
PyMax(a, b) == IF b > a THEN b ELSE a

(***************************************************************************)
(* slowfast_nfnet_params: the architecture table.                          *)
(***************************************************************************)
Rep4(v) == <<v, v, v, v>>

F0_slow_mut ==
  [ width |-> <<256, 512, 1536, 1536>>,
    depth |-> <<1, 2, 6>>,
    expansion |-> Rep4(<<1, 2>>),
    group_width |-> Rep4(128),
    big_width |-> Rep4(TRUE),
    drop_rate |-> <<1, 5>>,
    stem_kernel_pattern |-> << <<1, 3>>, <<1, 3>>, <<1, 3>>, <<3, 3>> >>,
    stem_stride_pattern |-> << <<2, 2>>, <<1, 1>>, <<1, 1>>, <<2, 2>> >>,
    kernel_pattern |-> << <<1, 1>>, <<1, 1>>, <<3, 1>>, <<3, 1>> >>,
    stride_pattern |-> << <<1, 1>>, <<1, 2>>, <<1, 2>>, <<1, 2>> >> ]

F0_slow ==
  [ width |-> <<256, 512, 1536, 1536>>,
    depth |-> <<1, 2, 6, 3>>,
    expansion |-> Rep4(<<1, 2>>),
    group_width |-> Rep4(128),
    big_width |-> Rep4(TRUE),
    drop_rate |-> <<1, 5>>,
    stem_kernel_pattern |-> << <<1, 3>>, <<1, 3>>, <<1, 3>>, <<3, 3>> >>,
    stem_stride_pattern |-> << <<2, 2>>, <<1, 1>>, <<1, 1>>, <<2, 2>> >>,
    kernel_pattern |-> << <<1, 1>>, <<1, 1>>, <<3, 1>>, <<3, 1>> >>,
    stride_pattern |-> << <<1, 1>>, <<1, 2>>, <<1, 2>>, <<1, 2>> >> ]

F0_fast ==
  [ width |-> <<32, 64, 192, 192>>,
    depth |-> <<1, 2, 6, 3>>,
    expansion |-> Rep4(<<1, 2>>),
    group_width |-> Rep4(16),
    big_width |-> Rep4(TRUE),
    drop_rate |-> <<1, 5>>,
    stem_kernel_pattern |-> << <<3, 3>>, <<1, 3>>, <<1, 3>>, <<3, 3>> >>,
    stem_stride_pattern |-> << <<2, 2>>, <<1, 1>>, <<1, 1>>, <<2, 2>> >>,
    kernel_pattern |-> << <<3, 1>>, <<3, 1>>, <<3, 1>>, <<3, 1>> >>,
    stride_pattern |-> << <<1, 1>>, <<1, 2>>, <<1, 2>>, <<1, 2>> >> ]

slowfast_nfnet_params == ("F0-slow" :> F0_slow) @@ ("F0-fast" :> F0_fast)

\* the keys of an architecture record that hold one entry per stage
PerStageFields ==
  {"width", "depth", "expansion", "group_width", "big_width",
   "stem_kernel_pattern", "stem_stride_pattern", "kernel_pattern",
   "stride_pattern"}

\* The largest (0-based) stage index a reader of the table tries.
MaxIndex == 4

\* Python list indexing seq[i] with i >= 0: the entry, or IndexError
PyIndex(seq, i) == IF i < Len(seq) THEN Some(seq[i + 1]) ELSE None

ArchInit ==
  /\ arch_name \in DOMAIN slowfast_nfnet_params
  /\ arch_field \in PerStageFields \cup {"drop_rate"}
  /\ arch_index \in 0..MaxIndex
  /\ arch_value = None
  /\ arch_pc = "start"

ArchIdle ==
  /\ arch_name = "F0-slow"
  /\ arch_field = "width"
  /\ arch_index = 0
  /\ arch_value = None
  /\ arch_pc = "idle"

\* slowfast_nfnet_params[name][field][index], for a per-stage field
ReadStage ==
  /\ arch_pc = "start"
  /\ arch_field \in PerStageFields
  /\ LET got == PyIndex(slowfast_nfnet_params[arch_name][arch_field], arch_index)
     IN  /\ arch_value' = got
         /\ arch_pc' = IF got = None THEN "IndexError" ELSE "read"
  /\ UNCHANGED <<arch_name, arch_field, arch_index, notArch>>

\* slowfast_nfnet_params[name]['drop_rate'], a scalar
ReadDropRate ==
  /\ arch_pc = "start"
  /\ arch_field = "drop_rate"
  /\ arch_value' = Some(slowfast_nfnet_params[arch_name].drop_rate)
  /\ arch_pc' = "read"
  /\ UNCHANGED <<arch_name, arch_field, arch_index, notArch>>

ArchNext == ReadStage \/ ReadDropRate

(***************************************************************************)
(* SqueezeExcite.__init__                                                  *)
(***************************************************************************)
\* The largest channel count passed to a constructor.
MaxCh == 4

\* se_ratio values a caller passes (all exact in binary floating point)
SeRatios == {<<-1, 2>>, <<1, 4>>, <<1, 2>>, <<3, 2>>}

\* the default of the se_ratio parameter
SeRatioDefault == <<1, 2>>

\* An argument list: a missing se_ratio or hidden_ch takes the signature's default.
SEArgs ==
  [ in_ch : 1..MaxCh, out_ch : 1..MaxCh,
    se_ratio_given : BOOLEAN, se_ratio : {None} \cup SeRatios,
    hidden_ch : {None} \cup {Some(h) : h \in 1..MaxCh} ]

\* the value bound to the parameter se_ratio
BoundSeRatio(a) == IF a.se_ratio_given THEN a.se_ratio ELSE SeRatioDefault

\* the attributes of the object under construction; None: not set
NoAttrs ==
  [ in_ch |-> None, out_ch |-> None, hidden_ch |-> None, activation |-> None,
    fc0 |-> None, fc1 |-> None ]

SEInit ==
  /\ se_args \in {a \in SEArgs : ~a.se_ratio_given => a.se_ratio = None}
  /\ se_self = NoAttrs
  /\ se_modules = <<>>
  /\ se_pc = "new"

SEIdle ==
  /\ se_args = [in_ch |-> 1, out_ch |-> 1, se_ratio_given |-> FALSE,
                se_ratio |-> None, hidden_ch |-> None]
  /\ se_self = NoAttrs
  /\ se_modules = <<>>
  /\ se_pc = "idle"

\* hk.Module.__init__: the module is registered under the current frame
RegisterModule(mods, cls) == Append(mods, cls)

\* hk.Linear(output_size, with_bias=True)
Linear(output_size) == [output_size |-> output_size, with_bias |-> TRUE]

\* the hidden width when se_ratio is not None
HiddenFromRatio(in_ch, se_ratio) == PyMax(1, PyInt(RMul(RInt(in_ch), se_ratio)))

\* The whole constructor.  The object and the module registry are kept as the
\* raise leaves them.
SqueezeExcite__init__ ==
  /\ se_pc = "new"
  /\ LET a == se_args
         se_ratio == BoundSeRatio(a)
         \* super().__init__(name=name)
         m1 == RegisterModule(se_modules, "SqueezeExcite")
         \* self.in_ch, self.out_ch = in_ch, out_ch
         s1 == [se_self EXCEPT !.in_ch = Some(a.in_ch), !.out_ch = Some(a.out_ch)]
     IN  IF se_ratio = None /\ a.hidden_ch = None
         THEN /\ se_pc' = "ValueError"
              /\ se_self' = s1
              /\ se_modules' = m1
         ELSE LET hidden == IF se_ratio = None THEN a.hidden_ch[1]
                            ELSE HiddenFromRatio(s1.in_ch[1], se_ratio)
              IN  /\ se_pc' = "done"
                  /\ se_self' = [s1 EXCEPT !.hidden_ch = Some(hidden),
                                           !.activation = Some("relu"),
                                           !.fc0 = Some(Linear(hidden)),
                                           !.fc1 = Some(Linear(s1.out_ch[1]))]
                  /\ se_modules' = RegisterModule(RegisterModule(m1, "Linear"), "Linear")
  /\ UNCHANGED <<se_args, notSE>>

SENext == SqueezeExcite__init__

(***************************************************************************)
(* Tensors: a shape and one value per index tuple (1-based).               *)
(***************************************************************************)
RECURSIVE IndicesOf(_)
IndicesOf(shape) ==
  IF shape = <<>> THEN {<<>>}
  ELSE {<<i>> \o rest : i \in 1..Head(shape), rest \in IndicesOf(Tail(shape))}

RECURSIVE Prod(_)
Prod(shape) == IF shape = <<>> THEN 1 ELSE Head(shape) * Prod(Tail(shape))

\* the row-major position of idx, from 0
RECURSIVE FlatPos(_, _)
FlatPos(idx, shape) ==
  IF idx = <<>> THEN 0
  ELSE (Head(idx) - 1) * Prod(Tail(shape)) + FlatPos(Tail(idx), Tail(shape))

\* numpy broadcasting: shapes are aligned at their last axis
\* axis k (of n) of a shape aligned at its last axis; 1 where it has none
AxisOf(shape, k, n) == IF k <= n - Len(shape) THEN 1 ELSE shape[k - (n - Len(shape))]

Compatible(a, b) ==
  LET n == PyMax(Len(a), Len(b))
  IN  \A k \in 1..n :
        \/ AxisOf(a, k, n) = AxisOf(b, k, n)
        \/ AxisOf(a, k, n) = 1
        \/ AxisOf(b, k, n) = 1

BroadcastShape(a, b) ==
  LET n == PyMax(Len(a), Len(b))
  IN  [k \in 1..n |-> PyMax(AxisOf(a, k, n), AxisOf(b, k, n))]

\* the index of the operand of shape `shape` that feeds position idx of the result
SrcIndex(idx, shape) ==
  [k \in 1..Len(shape) |->
     IF shape[k] = 1 THEN 1 ELSE idx[k + (Len(idx) - Len(shape))]]

\* a * b, elementwise with broadcasting; None when the shapes do not broadcast
TMul(a, b) ==
  IF ~Compatible(a.shape, b.shape) THEN None
  ELSE LET bs == BroadcastShape(a.shape, b.shape)
       IN  Some([shape |-> bs,
                 data |-> [idx \in IndicesOf(bs) |->
                             RMul(a.data[SrcIndex(idx, a.shape)],
                                  b.data[SrcIndex(idx, b.shape)])]])

(***************************************************************************)
(* StochDepth                                                              *)
(***************************************************************************)
\* The largest batch size, the largest other dimension, the largest rank and
\* the largest number of elements of an input, and the largest number of
\* calls of one module.
MaxBatch == 2

MaxElems == 8

MaxDim == 3

MaxRank == 5

MaxCalls == 3

\* shapes (batch, ...) of rank 1..MaxRank
RECURSIVE ShapesOfRank(_)
ShapesOfRank(n) ==
  IF n = 1 THEN {<<b>> : b \in 1..MaxBatch}
  ELSE {Append(sh, d) : sh \in ShapesOfRank(n - 1), d \in 1..MaxDim}

XShapes == {sh \in UNION {ShapesOfRank(n) : n \in 1..MaxRank} : Prod(sh) <= MaxElems}

\* the shapes of the inputs of a sequence of calls
SeqShapes == {<<b, 1, 1, 1>> : b \in 1..MaxBatch}

\* the inputs: position p (from 0) of x holds seed * (p + 1)
XSeeds == {1, -3}

XTensor(shape, seed) ==
  [shape |-> shape,
   data |-> [idx \in IndicesOf(shape) |-> RInt(seed * (FlatPos(idx, shape) + 1))]]

\* drop_rate values in [0, 1); 1/5 is the table's 'drop_rate'
DropRates == {<<0, 1>>, <<1, 5>>, <<1, 2>>}

\* values in [0, 1) that jax.random.uniform may return
RSet == {<<0, 1>>, <<1, 2>>, <<9, 10>>}

\* the values drawn in a sequence of calls
SeqRSet == {<<0, 1>>, <<9, 10>>}

\* StochDepth.__init__: the state after construction
SDInit ==
  /\ sd_drop_rate \in DropRates
  /\ sd_scale_by_keep \in BOOLEAN
  /\ sd_rng = 0
  /\ sd_calls = 0
  /\ sd_train_calls = 0
  /\ sd_keys = <<>>
  /\ sd_x = None
  /\ sd_is_training = FALSE
  /\ sd_key = None
  /\ sd_r = None
  /\ sd_out = None
  /\ sd_pc = "ready"

SDIdle ==
  /\ sd_drop_rate = <<0, 1>>
  /\ sd_scale_by_keep = FALSE
  /\ sd_rng = 0
  /\ sd_calls = 0
  /\ sd_train_calls = 0
  /\ sd_keys = <<>>
  /\ sd_x = None
  /\ sd_is_training = FALSE
  /\ sd_key = None
  /\ sd_r = None
  /\ sd_out = None
  /\ sd_pc = "idle"

\* hk.next_rng_key(): the next key of the key sequence, which advances
next_rng_key(rng) == [key |-> rng, rng |-> rng + 1]

\* the shape of r
uniform_shape_one(batch_size) == <<1, 1, 1, 1>>

uniform_shape(batch_size) == <<batch_size, 1, 1, 1>>

\* jax.random.uniform(key, shape): u[b] is the value drawn for row b
uniform(shape, u) == [shape |-> shape, data |-> [idx \in IndicesOf(shape) |-> u[idx[1]]]]

\* keep_prob = 1. - self.drop_rate
keep_prob_of(drop_rate) == RSub(RInt(1), drop_rate)

binary_tensor_by_drop_rate(keep_prob, r) ==
  [shape |-> r.shape,
   data |-> [idx \in DOMAIN r.data |->
               RInt(RFloor(RAdd(RSub(RInt(1), keep_prob), r.data[idx])))]]

\* binary_tensor = jnp.floor(keep_prob + r)
binary_tensor_of(keep_prob, r) ==
  [shape |-> r.shape,
   data |-> [idx \in DOMAIN r.data |-> RInt(RFloor(RAdd(keep_prob, r.data[idx])))]]

rescale_always(x, keep_prob, scale_by_keep) ==
  [shape |-> x.shape,
   data |-> [idx \in DOMAIN x.data |-> RDiv(x.data[idx], keep_prob)]]

\* if self.scale_by_keep: x = x / keep_prob
rescale(x, keep_prob, scale_by_keep) ==
  IF scale_by_keep
  THEN [shape |-> x.shape,
        data |-> [idx \in DOMAIN x.data |-> RDiv(x.data[idx], keep_prob)]]
  ELSE x

eval_branch_keyed(x, rng) ==
  [out |-> Some(x), rng |-> next_rng_key(rng).rng, key |-> None, r |-> None]

\* if not is_training: return x
eval_branch(x, rng) == [out |-> Some(x), rng |-> rng, key |-> None, r |-> None]

\* the rest of __call__; u holds the values the key yields
train_branch(x, rng, u, drop_rate, scale_by_keep) ==
  LET batch_size == x.shape[1]
      k == next_rng_key(rng)
      r == uniform(uniform_shape(batch_size), u)
      keep_prob == keep_prob_of(drop_rate)
      binary_tensor == binary_tensor_of(keep_prob, r)
      x1 == rescale(x, keep_prob, scale_by_keep)
  IN  [out |-> TMul(x1, binary_tensor), rng |-> k.rng, key |-> Some(k.key), r |-> Some(r)]

\* StochDepth.__call__(x, is_training), for an x of one of the given shapes and
\* uniform values of the given set
StochDepth__call__(shapes, seeds, rset) ==
  /\ sd_pc # "idle"
  /\ \E shape \in shapes, seed \in seeds, is_training \in BOOLEAN :
       \E u \in [1..(IF is_training THEN shape[1] ELSE 0) -> rset] :
         LET x == XTensor(shape, seed)
             res == IF ~is_training THEN eval_branch(x, sd_rng)
                    ELSE train_branch(x, sd_rng, u, sd_drop_rate, sd_scale_by_keep)
         IN  /\ sd_x' = Some(x)
             /\ sd_is_training' = is_training
             /\ sd_rng' = res.rng
             /\ sd_key' = res.key
             /\ sd_r' = res.r
             /\ sd_out' = res.out
             /\ sd_pc' = IF sd_out' = None THEN "BroadcastError" ELSE "returned"
             /\ sd_calls' = sd_calls + 1
             /\ sd_train_calls' = IF is_training THEN sd_train_calls + 1 ELSE sd_train_calls
             /\ sd_keys' = IF sd_key' = None THEN sd_keys ELSE Append(sd_keys, sd_key'[1])
  /\ UNCHANGED <<sd_drop_rate, sd_scale_by_keep, notSD>>

\* the first call of a module, on an input of any shape
FirstCall ==
  /\ sd_calls = 0
  /\ StochDepth__call__(XShapes, XSeeds, RSet)

\* one more call of a module, on an input of shape (batch, 1, 1, 1)
RepeatedCall ==
  /\ sd_calls < MaxCalls
  /\ StochDepth__call__(SeqShapes, {1}, SeqRSet)

(***************************************************************************)
(* WSConv2D                                                                *)
(*                                                                         *)
(* The arithmetic of a module is ws_arith.  "real" reads every jnp         *)
(* operation as the function of real numbers it computes.  "float" rounds  *)
(* the result of every operation to Precision significant bits, to nearest *)
(* and ties to even, as binary floating point does (float32 keeps 24       *)
(* bits); exponents are unbounded, so nothing overflows or underflows.     *)
(*                                                                         *)
(* A value is [q, m], the number q * rsqrt(m) = q / sqrt(m): under "real"  *)
(* rsqrt stays symbolic and all weights of one output channel share m,     *)
(* under "float" rsqrt is rounded and m is 1.  An output is [q, m, b], the *)
(* number q * rsqrt(m) + b.  The convolution is modelled at one output     *)
(* position: the input is the patch of shape (kh, kw, channels) under the  *)
(* kernel.                                                                 *)
(***************************************************************************)
\* The largest kernel side, number of kernel input channels, number of
\* output channels and number of kernel elements, and the largest number of
\* calls of one module.
MaxK == 2

MaxCin == 3

MaxCout == 2

MaxWElems == 4

MaxWSCalls == 2

\* the number of significant bits of the "float" arithmetic
Precision == 3

\* values of kernel weights, of updated gains and of updated biases (all
\* representable with Precision bits)
WSet == {<<1, 1>>, <<3, 2>>}

GSet == {<<1, 1>>, <<2, 1>>}

BSet == {<<0, 1>>, <<1, 1>>}

\* the default of the eps parameter
EpsDefault == <<1, 10000>>

\* eps values a caller passes
EpsSet == {EpsDefault, <<1, 1>>}

RECURSIVE Pow2(_)
Pow2(e) == IF e = 0 THEN 1 ELSE 2 * Pow2(e - 1)

\* 2^e, for any integer e
RPow2(e) == IF e >= 0 THEN <<Pow2(e), 1>> ELSE <<1, Pow2(-e)>>

\* the e with 2^(step*e) <= q < 2^(step*(e+1)), for q > 0, searched from e
RECURSIVE ExpFrom(_, _, _)
ExpFrom(q, step, e) ==
  IF RLt(q, RPow2(step * e)) THEN ExpFrom(q, step, e - 1)
  ELSE IF RLe(RPow2(step * (e + 1)), q) THEN ExpFrom(q, step, e + 1)
  ELSE e

\* the integer nearest to t >= 0, ties to even
RoundHalfEven(t) ==
  LET n == RFloor(t)
      twice == RSub(RMul(RInt(2), t), RInt(2 * n))
  IN  IF RLt(RInt(1), twice) \/ (twice = RInt(1) /\ n % 2 = 1) THEN n + 1 ELSE n

\* numbers m * 2^e or m / 2^e, with m of Precision bits and e up to ExpRange,
\* which the format holds exactly
ExpRange == 16

PowersOf2 == {Pow2(e) : e \in 0..ExpRange}

Significands == 0..(Pow2(Precision) - 1)

Exact(q) ==
  \/ q[2] = 1 /\ Abs(q[1]) \in {m * p : m \in Significands, p \in PowersOf2}
  \/ q[2] \in PowersOf2 /\ Abs(q[1]) \in Significands

\* the floating-point number nearest to q
FloatRound(q) ==
  IF Exact(q) THEN q
  ELSE LET a == <<Abs(q[1]), q[2]>>
           ulp == RPow2(ExpFrom(a, 1, 0) - Precision + 1)
           n == RoundHalfEven(RDiv(a, ulp))
       IN  RMul(RInt(IF q[1] < 0 THEN -n ELSE n), ulp)

\* the floating-point number nearest to 1 / sqrt(m), for m > 0
FloatRsqrt(m) ==
  LET y2 == RDiv(RInt(1), m)
      ulp == RPow2(ExpFrom(y2, 2, 0) - Precision + 1)
      below == CHOOSE k \in Pow2(Precision - 1)..(Pow2(Precision) - 1) :
                 /\ RLe(RMul(RMul(RInt(k), ulp), RMul(RInt(k), ulp)), y2)
                 /\ RLt(y2, RMul(RMul(RInt(k + 1), ulp), RMul(RInt(k + 1), ulp)))
      mid == RMul(<<2 * below + 1, 2>>, ulp)
      mid2 == RMul(mid, mid)
  IN  RMul(RInt(IF RLt(mid2, y2) \/ (mid2 = y2 /\ below % 2 = 1)
                THEN below + 1 ELSE below),
           ulp)

\* the result of one operation whose real value is x
Round(arith, x) ==
  CHOOSE r \in {IF arith = "real" THEN q ELSE FloatRound(q) : q \in {x}} : TRUE

\* jax.lax.rsqrt(m)
rsqrt(arith, x) ==
  CHOOSE r \in {IF arith = "real" THEN [q |-> RInt(1), m |-> m]
                ELSE [q |-> FloatRsqrt(m), m |-> RInt(1)] : m \in {x}} : TRUE

\* an array of the module's dtype holding the values of t
AsArray(arith, t) ==
  [shape |-> t.shape, data |-> [idx \in DOMAIN t.data |-> Round(arith, t.data[idx])]]

\* the sum of f over the first n of the indices idxs, accumulated in that
\* order.  (Here and below, a set {e : v \in {d}} binds v to the value of d,
\* evaluated once, and CHOOSE takes the one element out.)
RECURSIVE SumF(_, _, _, _)
SumF(arith, f, idxs, n) ==
  IF n = 0 THEN RInt(0)
  ELSE CHOOSE r \in {Round(arith, RAdd(acc, f[idxs[n]])) :
                       acc \in {SumF(arith, f, idxs, n - 1)}} : TRUE

\* a module as constructed: WSConv2D(output_channels, kernel_shape,
\* feature_group_count=...)
WSConfigs ==
  {c \in [kernel_shape : (1..MaxK) \X (1..MaxK), output_channels : 1..MaxCout,
          feature_group_count : 1..2] :
     c.output_channels % c.feature_group_count = 0}

NoParams == [w |-> None, gain |-> None, bias |-> None]

WSInit ==
  /\ ws_cfg \in WSConfigs
  /\ ws_arith \in {"real", "float"}
  /\ ws_params = NoParams
  /\ ws_calls = 0
  /\ ws_inputs = None
  /\ ws_eps = None
  /\ ws_weight = None
  /\ ws_out = None
  /\ ws_pc = "ready"

WSIdle ==
  /\ ws_cfg = [kernel_shape |-> <<1, 1>>, output_channels |-> 1, feature_group_count |-> 1]
  /\ ws_arith = "real"
  /\ ws_params = NoParams
  /\ ws_calls = 0
  /\ ws_inputs = None
  /\ ws_eps = None
  /\ ws_weight = None
  /\ ws_out = None
  /\ ws_pc = "idle"

\* hk.get_parameter(name, shape, dtype, init): the stored value, created from
\* init when the store has none; an error when the stored shape differs
get_parameter(params, name, shape, init) ==
  IF params[name] = None
  THEN [ok |-> TRUE, params |-> [params EXCEPT ![name] = Some(init)], value |-> init]
  ELSE IF params[name][1].shape # shape
  THEN [ok |-> FALSE, params |-> params, value |-> init]
  ELSE [ok |-> TRUE, params |-> params, value |-> params[name][1]]

\* jnp.zeros(shape)
zeros(shape) == [shape |-> shape, data |-> [idx \in IndicesOf(shape) |-> RInt(0)]]

ones_filled_with_zeros(shape) == zeros(shape)

\* jnp.ones(shape), the init of 'gain'
ones(shape) == [shape |-> shape, data |-> [idx \in IndicesOf(shape) |-> RInt(1)]]

\* the number of positions of one output channel of a kernel
ChannelSize(shape) == shape[1] * shape[2] * shape[3]

\* the positions of output channel o of a kernel, in row-major order
Channel(shape, o) ==
  [k \in 1..ChannelSize(shape) |->
     <<((k - 1) \div (shape[2] * shape[3])) + 1,
       (((k - 1) \div shape[3]) % shape[2]) + 1,
       ((k - 1) % shape[3]) + 1,
       o>>]

\* jnp.mean(weight, axis=(0, 1, 2), keepdims=True), at channel o
mean(arith, weight, o) ==
  Round(arith, RDiv(SumF(arith, weight.data, Channel(weight.shape, o),
                         ChannelSize(weight.shape)),
                    RInt(ChannelSize(weight.shape))))

\* jnp.var(weight, axis=(0, 1, 2), keepdims=True), at channel o: the mean of
\* the squares of weight - mean
var(arith, weight, o) ==
  CHOOSE r \in
    UNION {{Round(arith, RDiv(total, RInt(ChannelSize(weight.shape)))) :
              total \in
                {SumF(arith,
                      [idx \in DOMAIN weight.data |->
                         CHOOSE sq \in {Round(arith, RMul(c, c)) :
                                          c \in {Round(arith, RSub(weight.data[idx], mu))}} :
                           TRUE],
                      Channel(weight.shape, o), ChannelSize(weight.shape))}} :
           mu \in {mean(arith, weight, o)}} : TRUE

fan_in_all_axes(shape) == Prod(shape)

\* fan_in = np.prod(weight.shape[:-1])
fan_in_of(shape) == Prod(SubSeq(shape, 1, Len(shape) - 1))

\* scale = jax.lax.rsqrt(jnp.maximum(var * fan_in, eps)) * gain, at channel o
scale_of(arith, weight, o, gain, eps) ==
  CHOOSE s \in
    UNION {{[q |-> Round(arith, RMul(r.q, gain.data[<<o>>])), m |-> r.m] :
              r \in {rsqrt(arith, RMax(Round(arith, RMul(v, RInt(fan_in_of(weight.shape)))),
                                       Round(arith, eps)))}} :
           v \in {var(arith, weight, o)}} : TRUE

shift_without_gain(arith, weight, o, scale) ==
  [q |-> mean(arith, weight, o), m |-> scale.m]

\* shift = mean * scale, at channel o
shift_of(arith, weight, o, scale) ==
  CHOOSE s \in {[q |-> Round(arith, RMul(mu, scale.q)), m |-> scale.m] :
                  mu \in {mean(arith, weight, o)}} : TRUE

\* WSConv2D.standardize_weight, given the gain the store returned:
\* weight * scale - shift, with scale and shift computed once per channel
standardize_weight(arith, weight, eps, gain) ==
  CHOOSE r \in
    {[shape |-> weight.shape,
      data |-> [idx \in DOMAIN weight.data |->
                  LET c == CHOOSE s \in per_channel : s.o = idx[4]
                  IN  [q |-> Round(arith,
                                   RSub(Round(arith, RMul(weight.data[idx], c.scale.q)),
                                        c.shift.q)),
                       m |-> c.scale.m]]] :
     per_channel \in
       {UNION {{[o |-> o, scale |-> scale,
                 shift |-> shift_of(arith, weight, o, scale)] :
                  scale \in {scale_of(arith, weight, o, gain, eps)}} :
               o \in 1..weight.shape[4]}}} : TRUE

\* jax.lax.conv_general_dilated at one output position, for output channel o
\* (feature_group_count groups of input and of output channels)
conv_general_dilated(arith, inputs, weight, o, feature_group_count) ==
  LET cin == weight.shape[3]
      group == (o - 1) \div (weight.shape[4] \div feature_group_count)
      terms == [idx \in DOMAIN weight.data |->
                  Round(arith,
                        RMul(inputs.data[<<idx[1], idx[2], group * cin + idx[3]>>],
                             weight.data[idx].q))]
  IN  [q |-> SumF(arith, terms, Channel(weight.shape, o), ChannelSize(weight.shape)),
       m |-> weight.data[<<1, 1, 1, o>>].m]

\* the kernels w_init may return (VarianceScaling draws every entry at random)
Kernels(shape) == {[shape |-> shape, data |-> d] : d \in [IndicesOf(shape) -> WSet]}

\* out + bias, per output channel
add_bias(arith, out, bias) ==
  [o \in DOMAIN out |->
     IF arith = "real"
     THEN [q |-> out[o].q, m |-> out[o].m, b |-> bias.data[<<o>>]]
     ELSE [q |-> FloatRound(RAdd(out[o].q, bias.data[<<o>>])),
           m |-> RInt(1), b |-> RInt(0)]]

\* WSConv2D.__call__(inputs, eps) on a patch of g * cin channels.  (A value
\* bound by \E v \in {e} is e, evaluated once.)
WSConv2D__call__ ==
  /\ ws_pc # "idle"
  /\ ws_calls < MaxWSCalls
  /\ \E cin \in 1..MaxCin, seed \in XSeeds, eps \in EpsSet :
       LET kh == ws_cfg.kernel_shape[1]
           kw == ws_cfg.kernel_shape[2]
           g == ws_cfg.feature_group_count
           in_channels == g * cin
           w_shape == <<kh, kw, in_channels \div g, ws_cfg.output_channels>>
           bias_shape == <<ws_cfg.output_channels>>
       IN  /\ Prod(w_shape) <= MaxWElems
           /\ \E inputs \in {AsArray(ws_arith, XTensor(<<kh, kw, in_channels>>, seed))},
                 w_init \in IF ws_params.w = None THEN Kernels(w_shape) ELSE {zeros(w_shape)} :
                \E pw \in {get_parameter(ws_params, "w", w_shape, w_init)} :
                  /\ ws_inputs' = Some(inputs)
                  /\ ws_eps' = Some(eps)
                  /\ ws_calls' = ws_calls + 1
                  /\ IF ~pw.ok
                     THEN /\ ws_pc' = "ValueError"
                          /\ ws_params' = pw.params
                          /\ ws_weight' = None
                          /\ ws_out' = None
                     ELSE \E pg \in {get_parameter(pw.params, "gain", <<w_shape[4]>>,
                                                   ones(<<w_shape[4]>>))} :
                          \E weight \in {standardize_weight(ws_arith, pw.value, eps,
                                                            pg.value)} :
                          \E out \in {[o \in 1..w_shape[4] |->
                                         conv_general_dilated(ws_arith, inputs, weight,
                                                              o, g)]} :
                          \E pb \in {get_parameter(pg.params, "bias", bias_shape,
                                                   zeros(bias_shape))} :
                            /\ ws_pc' = "returned"
                            /\ ws_params' = pb.params
                            /\ ws_weight' = Some(weight)
                            /\ ws_out' = Some(add_bias(ws_arith, out, pb.value))
  /\ UNCHANGED <<ws_cfg, ws_arith, notWS>>

\* A training step outside the module, after a call that returned, replaces
\* stored parameters (one entry of w, or the gain and the bias of one
\* channel); the values of the last call are gone.
ExternalUpdate ==
  /\ ws_pc = "returned"
  /\ ws_calls < MaxWSCalls
  /\ ws_params.w # None
  /\ \/ \E idx \in DOMAIN ws_params.w[1].data, v \in WSet :
          ws_params' = [ws_params EXCEPT !.w = Some([@[1] EXCEPT !.data[idx] = v])]
     \/ \E o \in DOMAIN ws_params.gain[1].data, dg \in GSet, db \in BSet :
          ws_params' = [ws_params EXCEPT !.gain = Some([@[1] EXCEPT !.data[o] = dg]),
                                         !.bias = Some([@[1] EXCEPT !.data[o] = db])]
  /\ ws_params' # ws_params
  /\ ws_inputs' = None
  /\ ws_eps' = None
  /\ ws_weight' = None
  /\ ws_out' = None
  /\ ws_pc' = "updated"
  /\ UNCHANGED <<ws_cfg, ws_arith, ws_calls, notWS>>

(***************************************************************************)
(* Specifications.                                                         *)
(***************************************************************************)
InitArch == ArchInit /\ SEIdle /\ SDIdle /\ WSIdle

SpecArch == InitArch /\ [][ArchNext]_vars

InitSE == SEInit /\ ArchIdle /\ SDIdle /\ WSIdle

SpecSE == InitSE /\ [][SENext]_vars

InitSD == SDInit /\ ArchIdle /\ SEIdle /\ WSIdle

\* one call of a module, on an input of any shape
SpecSD == InitSD /\ [][FirstCall]_vars

\* a sequence of calls of a module
SpecSDSeq == InitSD /\ [][RepeatedCall]_vars

InitWS == WSInit /\ ArchIdle /\ SEIdle /\ SDIdle

NextWS == WSConv2D__call__ \/ ExternalUpdate

SpecWS == InitWS /\ [][NextWS]_vars

(***************************************************************************)
(* The architecture table (SpecArch).                                      *)
(***************************************************************************)
\* C9: for every architecture of slowfast_nfnet_params ('F0-slow' and
\* 'F0-fast') all per-stage arrays have the same length, so that reading
\* stage i of any of them succeeds exactly when it does for width; for
\* 'F0-slow' that length is 4, width is [256, 512, 1536, 1536] and depth is
\* [1, 2, 6, 3].
C9_PerStageArrays ==
  /\ DOMAIN slowfast_nfnet_params = {"F0-slow", "F0-fast"}
  /\ \A n \in DOMAIN slowfast_nfnet_params : \A f, g \in PerStageFields :
        Len(slowfast_nfnet_params[n][f]) = Len(slowfast_nfnet_params[n][g])
  /\ \A f \in PerStageFields : Len(slowfast_nfnet_params["F0-slow"][f]) = 4
  /\ slowfast_nfnet_params["F0-slow"].width = <<256, 512, 1536, 1536>>
  /\ slowfast_nfnet_params["F0-slow"].depth = <<1, 2, 6, 3>>
  /\ arch_pc = "read" /\ arch_field \in PerStageFields
        => arch_index < Len(slowfast_nfnet_params[arch_name].width)
  /\ arch_pc = "IndexError"
        => arch_index >= Len(slowfast_nfnet_params[arch_name].width)

\* the last stage's depth of 'F0-slow' has been read
C9_Witness ==
  /\ arch_pc = "read"
  /\ arch_name = "F0-slow"
  /\ arch_field = "depth"
  /\ arch_index = 3
  /\ arch_value = Some(3)

(***************************************************************************)
(* SqueezeExcite.__init__ (SpecSE).                                        *)
(***************************************************************************)
\* C1: a finished construction has hidden width hidden_ch whenever hidden_ch
\* was given, whatever se_ratio is (its default 0.5 included); only without
\* hidden_ch is it max(1, floor(in_ch * se_ratio)).
C1_HiddenChFirst ==
  se_pc = "done" =>
    se_self.hidden_ch =
      IF se_args.hidden_ch # None THEN se_args.hidden_ch
      ELSE Some(PyMax(1, RFloor(RMul(RInt(se_args.in_ch), BoundSeRatio(se_args)))))

\* C6: a construction with se_ratio = None and hidden_ch = None ends in a
\* ValueError and leaves nothing behind: no module registered, no attribute
\* set, no linear sub-layer.
C6_NoPartialState ==
  BoundSeRatio(se_args) = None /\ se_args.hidden_ch = None /\ se_pc # "new" =>
    /\ se_pc = "ValueError"
    /\ se_modules = <<>>
    /\ se_self = NoAttrs

(***************************************************************************)
(* StochDepth.__call__ (SpecSD: one call on an input of any shape;         *)
(* SpecSDSeq: a sequence of calls).                                        *)
(***************************************************************************)
\* the element of x that the output of a kept sample holds
Rescaled(v) == IF sd_scale_by_keep THEN RDiv(v, RSub(RInt(1), sd_drop_rate)) ELSE v

\* the mask value floor(keep_prob + r_b) of batch element b of the last call
MaskOf(b) == RFloor(RAdd(RSub(RInt(1), sd_drop_rate), sd_r[1].data[<<b, 1, 1, 1>>]))

\* The last call returned a tensor of the shape of x in which every element
\* of sample b is the (rescaled) element of x times the one mask value of b,
\* which is 0 or 1, and 1 exactly when r_b >= drop_rate.
MaskedPerSample ==
  /\ sd_pc = "returned"
  /\ sd_out[1].shape = sd_x[1].shape
  /\ DOMAIN sd_out[1].data = DOMAIN sd_x[1].data
  /\ \A b \in 1..sd_x[1].shape[1] :
       /\ MaskOf(b) \in {0, 1}
       /\ (MaskOf(b) = 1) <=> RLe(sd_drop_rate, sd_r[1].data[<<b, 1, 1, 1>>])
       /\ \A idx \in DOMAIN sd_x[1].data :
            idx[1] = b =>
              sd_out[1].data[idx] = RMul(Rescaled(sd_x[1].data[idx]), RInt(MaskOf(b)))

\* The last call returned a tensor in which every element that comes from
\* sample b of x is the (rescaled) element of x times the one mask value of b.
MaskedBySampleOfX ==
  /\ sd_pc = "returned"
  /\ \A idx \in DOMAIN sd_out[1].data :
       LET xi == SrcIndex(idx, sd_x[1].shape)
       IN  /\ MaskOf(xi[1]) \in {0, 1}
           /\ (MaskOf(xi[1]) = 1) <=> RLe(sd_drop_rate, sd_r[1].data[<<xi[1], 1, 1, 1>>])
           /\ sd_out[1].data[idx] =
                RMul(Rescaled(sd_x[1].data[xi]), RInt(MaskOf(xi[1])))

\* C2 as stated: after a training-mode call on an input of any rank the mask
\* varies only along the batch axis: every output element of sample b is the
\* (rescaled) input element times m_b = floor(keep_prob + r_b) in {0, 1}, with
\* m_b = 1 exactly when r_b >= drop_rate.
C2_MaskPerSampleAnyRank == sd_is_training => MaskedBySampleOfX

\* C2 amended: the same for an input of rank 4, (batch, height, width, channels).
C2_MaskPerSampleRank4 ==
  sd_is_training /\ Len(sd_x[1].shape) = 4 => MaskedPerSample

\* a rank-4 batch of two samples of more than one element, one kept, one dropped
C2_Witness ==
  /\ sd_pc = "returned"
  /\ sd_is_training
  /\ Len(sd_x[1].shape) = 4
  /\ sd_x[1].shape[1] = 2
  /\ Prod(sd_x[1].shape) > 2
  /\ MaskOf(1) = 0
  /\ MaskOf(2) = 1
  /\ sd_drop_rate = <<1, 5>>

\* C3: a call with is_training = false returns x unchanged, for every x,
\* drop_rate and scale_by_keep, and requests no key: the key source is after
\* the call as it was before it.
C3_EvalIsIdentity ==
  [][ sd_calls' = sd_calls + 1 /\ ~sd_is_training' =>
        /\ sd_pc' = "returned"
        /\ sd_out' = sd_x'
        /\ sd_rng' = sd_rng
        /\ sd_key' = None
        /\ sd_keys' = sd_keys ]_vars

\* an evaluation-mode call on a rank-5 input of a rescaling module has returned
C3_Witness ==
  /\ sd_pc = "returned"
  /\ ~sd_is_training
  /\ sd_calls = 1
  /\ sd_scale_by_keep
  /\ sd_drop_rate = <<1, 2>>
  /\ Len(sd_x[1].shape) = 5
  /\ sd_out = sd_x
  /\ sd_rng = 0

\* C4: every training-mode call requests exactly one key and draws exactly
\* batch_size values, one per batch element; the number of keys requested
\* equals the number of training-mode calls, and no key is used by two calls.
C4_OneKeyPerTrainingCall ==
  /\ sd_rng = sd_train_calls
  /\ Len(sd_keys) = sd_train_calls
  /\ \A i, j \in 1..Len(sd_keys) : sd_keys[i] = sd_keys[j] => i = j
  /\ sd_is_training =>
       /\ sd_key # None
       /\ sd_keys[Len(sd_keys)] = sd_key[1]
       /\ Cardinality(DOMAIN sd_r[1].data) = sd_x[1].shape[1]
       /\ DOMAIN sd_r[1].data = {<<b, 1, 1, 1>> : b \in 1..sd_x[1].shape[1]}
  /\ sd_pc = "returned" /\ ~sd_is_training => sd_key = None /\ sd_r = None

\* three calls, the first and the last in training mode, the last on a batch of two
C4_Witness ==
  /\ sd_calls = 3
  /\ sd_train_calls = 2
  /\ sd_is_training
  /\ sd_x[1].shape[1] = 2
  /\ sd_keys = <<0, 1>>

PositionsOf(o) == {idx \in DOMAIN ws_params.w[1].data : idx[4] = o}

\* exact sum, mean and variance of the values f over the positions S
RECURSIVE ExactSum(_, _)
ExactSum(f, S) ==
  IF S = {} THEN RInt(0)
  ELSE LET x == CHOOSE y \in S : TRUE
       IN  RAdd(f[x], ExactSum(f, S \ {x}))

ExactMean(f, S) == RDiv(ExactSum(f, S), RInt(Cardinality(S)))

ExactVar(f, S) ==
  ExactMean([x \in S |-> RMul(RSub(f[x], ExactMean(f, S)), RSub(f[x], ExactMean(f, S)))],
            S)

\* kh * kw * cin of the stored kernel
KernelFanIn == ws_params.w[1].shape[1] * ws_params.w[1].shape[2] * ws_params.w[1].shape[3]

\* the weights of channel o of the stored kernel are all equal
AllEqual(o) ==
  \A i, j \in PositionsOf(o) : ws_params.w[1].data[i] = ws_params.w[1].data[j]

C8_ParametersCreatedOnce ==
  [][ ws_calls' = ws_calls + 1 =>
        /\ \A name \in {"w", "gain", "bias"} :
             /\ ws_params[name] # None => ws_params'[name] = ws_params[name]
             /\ ws_params[name] = None /\ ws_params'[name] # None => ws_calls = 0
        /\ ws_calls = 0 =>
             /\ \A name \in {"w", "gain", "bias"} : ws_params'[name] # None
             /\ ws_params'.gain[1].shape = <<ws_cfg.output_channels>>
             /\ \A idx \in DOMAIN ws_params'.gain[1].data :
                  ws_params'.gain[1].data[idx] = RInt(1)
             /\ ws_params'.bias[1].shape = <<ws_cfg.output_channels>>
             /\ \A idx \in DOMAIN ws_params'.bias[1].data :
                  ws_params'.bias[1].data[idx] = RInt(0)
        /\ ws_calls > 0 =>
             /\ ws_params' = ws_params
             /\ ws_pc' = "returned" /\ ws_arith = "real" =>
                  \A o \in 1..ws_cfg.output_channels :
                    ws_out'[1][o].b = ws_params.bias[1].data[<<o>>] ]_vars

\* a second call has returned after the gain and the bias of a channel were
\* replaced outside the module: the store still holds the replaced values
C8_Witness ==
  /\ ws_pc = "returned"
  /\ ws_calls = 2
  /\ ws_cfg.output_channels = 2
  /\ ws_params.gain[1].data[<<1>>] = <<2, 1>>
  /\ ws_params.gain[1].data[<<2>>] = <<1, 1>>
  /\ ws_params.bias[1].data[<<1>>] = <<1, 1>>
  /\ ws_params.bias[1].data[<<2>>] = <<0, 1>>

\* channel o of the last call has a weight of zero at every position and an
\* output that is the stored bias of o
ZeroWeightBiasOutput(o) ==
  /\ \A idx \in PositionsOf(o) : ws_weight[1].data[idx].q = RInt(0)
  /\ \/ ws_out[1][o].q = RInt(0) /\ ws_out[1][o].b = ws_params.bias[1].data[<<o>>]
     \/ /\ ws_out[1][o].m = RInt(1)
        /\ RAdd(ws_out[1][o].q, ws_out[1][o].b) = ws_params.bias[1].data[<<o>>]

\* a call ends in an error only when the input does not have the channels of
\* the stored kernel
ErrorOnlyFromShape ==
  ws_pc = "ValueError" =>
    ws_inputs[1].shape[3] \div ws_cfg.feature_group_count # ws_params.w[1].shape[3]

\* C10 as stated: a call raises no error in standardize_weight, and for every
\* output channel whose kernel weights are all equal the standardized weight
\* is exactly zero at every position of the channel and the output of the
\* channel is the bias alone, for every gain, eps and input.
C10_ConstantChannelZero ==
  /\ ErrorOnlyFromShape
  /\ ws_pc = "returned" =>
       \A o \in 1..ws_params.w[1].shape[4] : AllEqual(o) => ZeroWeightBiasOutput(o)

\* C10 amended: the same in real arithmetic, and in floating point for a
\* kernel with fan_in = 1, whose channel mean is the weight itself.
C10_ConstantChannelZeroExact ==
  /\ ErrorOnlyFromShape
  /\ ws_pc = "returned" /\ (ws_arith = "real" \/ KernelFanIn = 1) =>
       \A o \in 1..ws_params.w[1].shape[4] : AllEqual(o) => ZeroWeightBiasOutput(o)

\* a second call in floating point on a 1x1 kernel of fan-in 1 and two
\* channels, with eps = 1, after gain and bias of channel 1 were replaced by
\* 2 and 1: the weight is zero and the output is the bias, 1 and 0
C10_Witness ==
  /\ ws_pc = "returned"
  /\ ws_arith = "float"
  /\ ws_calls = 2
  /\ ws_eps = Some(<<1, 1>>)
  /\ ws_params.w[1].shape = <<1, 1, 1, 2>>
  /\ ws_params.gain[1].data[<<1>>] = <<2, 1>>
  /\ ws_params.bias[1].data[<<1>>] = <<1, 1>>
  /\ ws_weight[1].data[<<1, 1, 1, 1>>].q = RInt(0)
  /\ ws_weight[1].data[<<1, 1, 1, 2>>].q = RInt(0)
  /\ ws_out[1][1] = [q |-> <<1, 1>>, m |-> <<1, 1>>, b |-> <<0, 1>>]
  /\ ws_out[1][2] = [q |-> <<0, 1>>, m |-> <<1, 1>>, b |-> <<0, 1>>]

====
